---- MODULE Spec2Model ----
(***************************************************************************)
(* Model of evcxr/src/errors.rs: the remapping of compiler diagnostics     *)
(* (JSON records) onto the coordinates of the user's code.                 *)
(*                                                                         *)
(* Strings are sequences of one-character strings, so that starts_with,   *)
(* ends_with, replace and lines() are computed character by character.     *)
(* A JsonValue is a record with a single field naming its variant.         *)
(***************************************************************************)
EXTENDS Integers, Sequences, FiniteSets, TLC

VARIABLES code_block, op, input, result, error, fills

vars == <<code_block, op, input, result, error, fills>>

(***************************************************************************)
(* Bounds of the model.                                                    *)
(***************************************************************************)
MaxSpans == 2
MaxChildren == 2
MaxDepth == 2
MaxPieces == 4
MaxFills == 2
MaxLine == 7
MaxByte == 16

(***************************************************************************)
(* Option<T>                                                               *)
(***************************************************************************)
None == [none |-> TRUE]
Some(x) == [some |-> x]
is_some(o) == "some" \in DOMAIN o
is_none(o) == ~is_some(o)

(***************************************************************************)
(* json::JsonValue and the accessors errors.rs uses.                       *)
(***************************************************************************)
Null == [null |-> TRUE]
Str(s) == [str |-> s]
Num(n) == [num |-> n]
Bool(b) == [bool |-> b]
Arr(a) == [arr |-> a]
Obj(f) == [obj |-> f]

is_object(j) == "obj" \in DOMAIN j
is_array(j) == "arr" \in DOMAIN j

\* json[key]: Null when json is not an object or has no such member.
Index(j, key) == IF is_object(j) /\ key \in DOMAIN j.obj THEN j.obj[key] ELSE Null

as_str(j) == IF "str" \in DOMAIN j THEN Some(j.str) ELSE None
as_usize(j) == IF "num" \in DOMAIN j /\ j.num >= 0 THEN Some(j.num) ELSE None
as_bool(j) == IF "bool" \in DOMAIN j THEN Some(j.bool) ELSE None

unwrap_or(o, d) == IF is_some(o) THEN o.some ELSE d

is_empty(j) ==
    CASE "null" \in DOMAIN j -> TRUE
      [] "str" \in DOMAIN j -> j.str = <<>>
      [] "num" \in DOMAIN j -> j.num = 0
      [] "bool" \in DOMAIN j -> ~j.bool
      [] "arr" \in DOMAIN j -> j.arr = <<>>
      [] "obj" \in DOMAIN j -> DOMAIN j.obj = {}

(***************************************************************************)
(* str                                                                     *)
(***************************************************************************)
starts_with(s, p) == Len(s) >= Len(p) /\ SubSeq(s, 1, Len(p)) = p
ends_with(s, p) == Len(s) >= Len(p) /\ SubSeq(s, Len(s) - Len(p) + 1, Len(s)) = p

\* Is there an occurrence of pattern p in s starting at index i?
MatchAt(s, p, i) == i + Len(p) - 1 <= Len(s) /\ SubSeq(s, i, i + Len(p) - 1) = p

Contains(s, p) == \E i \in 1..(Len(s) + 1) : MatchAt(s, p, i)

\* str::replace: the non-overlapping matches, found from left to right.
RECURSIVE replace_from(_, _, _, _)
replace_from(s, from, to, i) ==
    IF i > Len(s) THEN <<>>
    ELSE IF MatchAt(s, from, i) THEN to \o replace_from(s, from, to, i + Len(from))
    ELSE <<s[i]>> \o replace_from(s, from, to, i + 1)

replace(s, from, to) == replace_from(s, from, to, 1)

\* str::lines: split at "\n"; a final line need not be terminated.
RECURSIVE lines_from(_, _, _)
lines_from(s, i, cur) ==
    IF i > Len(s) THEN (IF cur = <<>> THEN <<>> ELSE <<cur>>)
    ELSE IF s[i] = "\n" THEN <<cur>> \o lines_from(s, i + 1, <<>>)
    ELSE lines_from(s, i + 1, Append(cur, s[i]))

lines(s) == lines_from(s, 1, <<>>)

Rep(c, n) == [i \in 1..n |-> c]

S_aborting == <<"a", "b", "o", "r", "t", "i", "n", "g", " ", "d", "u", "e", " ", "t", "o">>
S_more == <<"F", "o", "r", " ", "m", "o", "r", "e", " ", "i", "n", "f", "o", "r", "m", "a", "t", "i", "o", "n", " ", "a", "b", "o", "u", "t">>
S_some == <<"S", "o", "m", "e", " ", "e", "r", "r", "o", "r", "s", " ", "o", "c", "c", "u", "r", "r", "e", "d">>
\* U+0060, the backtick, which a TLA+ string literal cannot hold.
Backtick == "BQ"

Sentinel == <<Backtick, "e", "v", "c", "x", "r", "_", "v", "a", "r", "i", "a", "b", "l", "e", "_", "s", "t", "o", "r", "e", Backtick>>
EndOfInput == <<"<", "e", "n", "d", " ", "o", "f", " ", "i", "n", "p", "u", "t", ">">>
S_lib == <<"l", "i", "b", ".", "r", "s">>
S_error == <<"e", "r", "r", "o", "r">>

(***************************************************************************)
(* code_block::CodeKind, Segment, CodeBlock                                *)
(***************************************************************************)
OriginalUserCode(start_line, column_offset, node_index) ==
    [kind |-> "OriginalUserCode", start_line |-> start_line,
     column_offset |-> column_offset, node_index |-> node_index]
OtherGeneratedCode == [kind |-> "OtherGeneratedCode"]
PackVariable == [kind |-> "PackVariable"]

is_original_user_code(k) == k.kind = "OriginalUserCode"
is_user_supplied(k) == k.kind = "OriginalUserCode"

Segment(kind, code) == [kind |-> kind, code |-> code]

\* The kind of the segment holding the n-th (1-based) line of the generated
\* source, and the zero-based offset of that line within the segment.
RECURSIVE origin_from(_, _, _, _)
origin_from(segments, i, current_line_number, line_number) ==
    IF i > Len(segments) THEN <<OtherGeneratedCode, 0>>
    ELSE IF current_line_number + Len(lines(segments[i].code)) > line_number
         THEN <<segments[i].kind, line_number - current_line_number>>
    ELSE origin_from(segments, i + 1,
                     current_line_number + Len(lines(segments[i].code)), line_number)

origin_for_line(cb, line_number) ==
    IF line_number = 0 THEN <<OtherGeneratedCode, 0>>
    ELSE origin_from(cb.segments, 1, 1, line_number)

(***************************************************************************)
(* The origin resolver.                                                    *)
(***************************************************************************)
RECURSIVE spans_in_local_source(_)
spans_in_local_source(span) ==
    IF is_some(as_str(Index(span, "file_name")))
       /\ ends_with(as_str(Index(span, "file_name")).some, S_lib)
    THEN Some(span)
    ELSE IF is_object(Index(span, "expansion"))
         THEN spans_in_local_source(Index(Index(span, "expansion"), "span"))
         ELSE None

\* One of the two walks over the segments: b is the offset still to place.
RECURSIVE segment_walk(_, _, _)
segment_walk(segments, i, b) ==
    IF i > Len(segments) THEN b
    ELSE IF Len(segments[i].code) > b THEN b
    ELSE IF is_original_user_code(segments[i].kind) THEN b
    ELSE segment_walk(segments, i + 1, b - Len(segments[i].code))

PrologueOffset == 20

line_origins(span, cb) ==
    LET ls == as_usize(Index(span, "line_start"))
        le == as_usize(Index(span, "line_end"))
    IN IF is_some(ls) /\ is_some(le) /\ ls.some <= le.some
       THEN [i \in 1..(le.some - ls.some + 1) |-> origin_for_line(cb, ls.some + i - 1)]
       ELSE <<>>

get_code_origins_for_span(span, cb) ==
    LET local == spans_in_local_source(span)
    IN IF is_some(local)
       THEN LET s == local.some
                bs == unwrap_or(as_usize(Index(s, "byte_start")), 0) + PrologueOffset
                be == unwrap_or(as_usize(Index(s, "byte_end")), 0) + PrologueOffset
            IN [origins |-> line_origins(s, cb),
                bytes |-> <<segment_walk(cb.segments, 1, bs),
                            segment_walk(cb.segments, 1, be)>>]
       ELSE [origins |-> <<>>, bytes |-> <<0, 0>>]

RECURSIVE origins_of_spans(_, _, _)
origins_of_spans(spans, i, cb) ==
    IF i > Len(spans) THEN <<>>
    ELSE LET o == get_code_origins_for_span(spans[i], cb).origins
         IN [k \in 1..Len(o) |-> o[k][1]] \o origins_of_spans(spans, i + 1, cb)

get_code_origins(json, cb) ==
    IF is_array(Index(json, "spans"))
    THEN origins_of_spans(Index(json, "spans").arr, 1, cb)
    ELSE <<>>

any_user_supplied(origins) == \E i \in 1..Len(origins) : is_user_supplied(origins[i])

(***************************************************************************)
(* Span and SpannedMessage                                                 *)
(***************************************************************************)
Span_from_command(command, start_column, end_column) ==
    [start_line |-> command.line_number,
     start_column |-> start_column,
     end_line |-> command.line_number,
     end_column |-> end_column,
     byte_start |-> start_column,
     byte_end |-> end_column,
     code_block_id |-> 0]

user_span_offset_always(start, start_line_offset, end, end_line_offset, start_column, end_column, bytes) ==
    [start_line |-> start.start_line + start_line_offset,
     start_column |-> start_column + start.column_offset,
     end_line |-> end.start_line + end_line_offset,
     end_column |-> end_column + end.column_offset,
     byte_start |-> bytes[1],
     byte_end |-> bytes[2],
     code_block_id |-> start.node_index]

\* The Span that from_json builds once the first and the last origin are
\* both OriginalUserCode.
user_span(start, start_line_offset, end, end_line_offset, start_column, end_column, bytes) ==
    [start_line |-> start.start_line + start_line_offset,
     start_column |-> start_column
                      + (IF start_line_offset = 0 THEN start.column_offset ELSE 0),
     end_line |-> end.start_line + end_line_offset,
     end_column |-> end_column
                    + (IF end_line_offset = 0 THEN end.column_offset ELSE 0),
     byte_start |-> bytes[1],
     byte_end |-> bytes[2],
     code_block_id |-> start.node_index]

\* Do the origins of a local span allow a user-coordinate Span?
both_ends_in_user_code(origins) ==
    /\ origins # <<>>
    /\ is_original_user_code(origins[1][1])
    /\ is_original_user_code(origins[Len(origins)][1])

\* The "let span = ..." of from_json.
span_of_json(span_json, cb) ==
    LET file_name == as_str(Index(span_json, "file_name"))
        start_column == as_usize(Index(span_json, "column_start"))
        end_column == as_usize(Index(span_json, "column_end"))
    IN IF is_some(file_name) /\ is_some(start_column) /\ is_some(end_column)
       THEN IF ends_with(file_name.some, S_lib)
            THEN LET r == get_code_origins_for_span(span_json, cb)
                     origins == r.origins
                 IN IF both_ends_in_user_code(origins)
                    THEN Some(user_span(origins[1][1], origins[1][2],
                                        origins[Len(origins)][1], origins[Len(origins)][2],
                                        start_column.some, end_column.some, r.bytes))
                    ELSE None
            ELSE None
       ELSE None

adopt_expansion_outer_primary(message, span_json) ==
    [message EXCEPT
        !.label = IF is_some(as_str(Index(span_json, "label")))
                  THEN as_str(Index(span_json, "label")).some
                  ELSE @,
        !.is_primary = unwrap_or(as_bool(Index(span_json, "is_primary")), FALSE)]

\* What from_json does to the message the recursion returned with a span.
adopt_expansion(message, span_json) ==
    [message EXCEPT
        !.label = IF is_some(as_str(Index(span_json, "label")))
                  THEN as_str(Index(span_json, "label")).some
                  ELSE @,
        !.is_primary = @ \/ unwrap_or(as_bool(Index(span_json, "is_primary")), FALSE)]

\* The SpannedMessage from_json ends with.
own_message(span, span_json) ==
    [span |-> span,
     lines |-> <<>>,
     label |-> unwrap_or(as_str(Index(span_json, "label")), <<>>),
     is_primary |-> unwrap_or(as_bool(Index(span_json, "is_primary")), FALSE)]

RECURSIVE from_json(_, _)
from_json_adopt_any(span_json, cb) ==
    LET span == span_of_json(span_json, cb)
        expansion_span_json == Index(Index(span_json, "expansion"), "span")
    IN IF is_none(span) /\ ~is_empty(expansion_span_json)
       THEN adopt_expansion(from_json(expansion_span_json, cb), span_json)
       ELSE own_message(span, span_json)

from_json(span_json, cb) ==
    LET span == span_of_json(span_json, cb)
        expansion_span_json == Index(Index(span_json, "expansion"), "span")
    IN IF is_none(span) /\ ~is_empty(expansion_span_json)
       THEN LET message == from_json(expansion_span_json, cb)
            IN IF is_some(message.span)
               THEN adopt_expansion(message, span_json)
               ELSE own_message(span, span_json)
       ELSE own_message(span, span_json)

SpannedMessage_from_segment_span(segment, span) ==
    [span |-> Some(span),
     lines |-> lines(segment.code),
     label |-> <<>>,
     is_primary |-> TRUE]

has_span(s) == is_some(s.span)

retain_spans_keep_all(output_spans) == output_spans

\* output_spans.retain(|s| s.span.is_some()), when some message has a span.
retain_spans(output_spans) ==
    IF \E i \in 1..Len(output_spans) : has_span(output_spans[i])
    THEN SelectSeq(output_spans, has_span)
    ELSE output_spans

build_spanned_messages(json, cb) ==
    LET spans == Index(json, "spans")
        output_spans == IF is_array(spans)
                        THEN [i \in 1..Len(spans.arr) |-> from_json(spans.arr[i], cb)]
                        ELSE <<>>
    IN retain_spans(output_spans)

\* Replaces the first occurrence only (str::replacen with a count of 1).
sanitize_message_first_only(message) ==
    IF Contains(message, Sentinel)
    THEN LET i == CHOOSE k \in 1..Len(message) :
                    /\ MatchAt(message, Sentinel, k)
                    /\ \A h \in 1..(k - 1) : ~MatchAt(message, Sentinel, h)
         IN SubSeq(message, 1, i - 1) \o EndOfInput
            \o SubSeq(message, i + Len(Sentinel), Len(message))
    ELSE message

sanitize_message(message) == replace(message, Sentinel, EndOfInput)

(***************************************************************************)
(* CompilationError                                                        *)
(***************************************************************************)
unwrap_envelope_never(json) == json

\* "if json["message"].is_object() { json = json["message"].clone(); }"
unwrap_envelope(json) ==
    IF is_object(Index(json, "message")) THEN Index(json, "message") ELSE json

\* The loop over the children: the child to use instead of the top-level
\* error, if any, and the origins collected.
RECURSIVE scan_children(_, _, _, _)
scan_children_child_only(children, i, code_origins, cb) ==
    IF i > Len(children)
    THEN [user_error_json |-> None, code_origins |-> code_origins]
    ELSE LET child_origins == get_code_origins(children[i], cb)
         IN IF any_user_supplied(child_origins)
            THEN [user_error_json |-> Some(children[i]), code_origins |-> child_origins]
            ELSE scan_children(children, i + 1, code_origins \o child_origins, cb)

scan_children(children, i, code_origins, cb) ==
    IF i > Len(children)
    THEN [user_error_json |-> None, code_origins |-> code_origins]
    ELSE LET child_origins == get_code_origins(children[i], cb)
         IN IF ~any_user_supplied(code_origins) /\ any_user_supplied(child_origins)
            THEN [user_error_json |-> Some(children[i]), code_origins |-> child_origins]
            ELSE scan_children(children, i + 1, code_origins \o child_origins, cb)

\* The working record and its origins, after the children were scanned.
working_record(json, cb) ==
    LET code_origins == get_code_origins(json, cb)
        children == Index(json, "children")
        scanned == IF is_array(children)
                   THEN scan_children(children.arr, 1, code_origins, cb)
                   ELSE [user_error_json |-> None, code_origins |-> code_origins]
    IN [json |-> IF is_some(scanned.user_error_json)
                 THEN scanned.user_error_json.some
                 ELSE json,
        code_origins |-> scanned.code_origins]

is_epilogue_first_only(message) == starts_with(message, S_aborting)

is_epilogue(message) ==
    \/ starts_with(message, S_aborting)
    \/ starts_with(message, S_more)
    \/ starts_with(message, S_some)

assemble_needs_level(json, code_origins, cb) ==
    LET message == as_str(Index(json, "message"))
        level == as_str(Index(json, "level"))
    IN IF is_some(message) /\ is_some(level)
       THEN IF is_epilogue(message.some)
            THEN None
            ELSE Some([spanned_messages |-> build_spanned_messages(json, cb),
                       message |-> sanitize_message(message.some),
                       level |-> level.some,
                       json |-> json,
                       code_origins |-> code_origins])
       ELSE None

\* The tail of opt_new: from the working record to the error, if any.
assemble(json, code_origins, cb) ==
    LET message == as_str(Index(json, "message"))
    IN IF is_some(message)
       THEN IF is_epilogue(message.some)
            THEN None
            ELSE Some([spanned_messages |-> build_spanned_messages(json, cb),
                       message |-> sanitize_message(message.some),
                       level |-> unwrap_or(as_str(Index(json, "level")), <<>>),
                       json |-> json,
                       code_origins |-> code_origins])
       ELSE None

opt_new(json, cb) ==
    LET w == working_record(unwrap_envelope(json), cb)
    IN assemble(w.json, w.code_origins, cb)

\* code_info.original_lines[span.start_line - 1..span.end_line]
slice_in_range(span, code_info) ==
    /\ span.start_line - 1 <= span.end_line
    /\ span.end_line <= Len(code_info.original_lines)

fill_message(spanned_message, code_info) ==
    IF is_some(spanned_message.span)
    THEN [spanned_message EXCEPT
            !.lines = @ \o SubSeq(code_info.original_lines,
                                  spanned_message.span.some.start_line,
                                  spanned_message.span.some.end_line)]
    ELSE spanned_message

fill_lines(self, code_info) ==
    [self EXCEPT !.spanned_messages =
        [i \in 1..Len(@) |-> fill_message(@[i], code_info)]]

from_segment_span(segment, spanned_message, message) ==
    [spanned_messages |-> <<spanned_message>>,
     message |-> message,
     json |-> Null,
     code_origins |-> <<segment.kind>>,
     level |-> S_error]

is_from_user_code(self) == any_user_supplied(self.code_origins)

(***************************************************************************)
(* The code blocks and the inputs the operations are applied to.           *)
(***************************************************************************)
Line(c, n) == Rep(c, n) \o <<"\n">>

\* Generated lines 1-2, user lines 3-5 (user lines 1-3), generated line 6.
CodeBlock1 ==
    [segments |-> <<
        Segment(OtherGeneratedCode, Line("g", 9) \o Line("g", 9)),
        Segment(OriginalUserCode(1, 0, 7), Line("u", 3) \o Line("u", 3) \o Line("u", 3)),
        Segment(OtherGeneratedCode, Line("g", 5))>>]

\* Two user segments separated by generated code: generated line 1, user
\* line 2 (user line 1, after 4 columns), generated line 3, user lines 4-5
\* (user lines 2-3, the first after 6 columns), generated line 6.
CodeBlock2 ==
    [segments |-> <<
        Segment(PackVariable, Line("p", 7)),
        Segment(OriginalUserCode(1, 4, 0), Line("u", 2)),
        Segment(OtherGeneratedCode, Line("g", 3)),
        Segment(OriginalUserCode(2, 6, 1), Line("v", 2) \o Line("v", 2)),
        Segment(OtherGeneratedCode, Line("g", 1))>>]

\* A first generated segment of 27 bytes, longer than the 20 bytes added to
\* the offsets: generated line 1, user lines 2-3 (user lines 1-2), generated
\* line 4, user line 5 (user line 3, after 2 columns), generated line 6.
CodeBlock3 ==
    [segments |-> <<
        Segment(OtherGeneratedCode, Line("g", 26)),
        Segment(OriginalUserCode(1, 0, 2), Line("w", 2) \o Line("w", 2)),
        Segment(OtherGeneratedCode, Line("g", 3)),
        Segment(OriginalUserCode(3, 2, 3), Line("z", 3)),
        Segment(OtherGeneratedCode, Line("g", 1))>>]

CodeBlocks == {CodeBlock1, CodeBlock2, CodeBlock3}

\* UserCodeInfo of a code block: the lines of its user segments, in order.
RECURSIVE user_lines(_, _)
user_lines(segments, i) ==
    IF i > Len(segments) THEN <<>>
    ELSE (IF is_user_supplied(segments[i].kind) THEN lines(segments[i].code) ELSE <<>>)
         \o user_lines(segments, i + 1)

user_code_info(cb) == [original_lines |-> user_lines(cb.segments, 1)]

With(j, key, v) == Obj((key :> v) @@ j.obj)
Without(j, key) == Obj([k \in (DOMAIN j.obj) \ {key} |-> j.obj[k]])
Restrict(j, keys) == Obj([k \in (DOMAIN j.obj) \cap keys |-> j.obj[k]])

LibRs == <<"/", "x", "/">> \o S_lib
OtherRs == <<"m", ".", "r", "s">>

LocalSpan(ls, le) ==
    Obj([file_name |-> Str(LibRs),
         line_start |-> Num(ls), line_end |-> Num(le),
         column_start |-> Num(2), column_end |-> Num(5),
         byte_start |-> Num(3 * ls), byte_end |-> Num(3 * le + 2),
         label |-> Str(<<"i">>), is_primary |-> Bool(FALSE)])

Expanding(outer, inner) == With(outer, "expansion", Obj([span |-> inner]))

\* The span records given to get_code_origins_for_span: every byte range up
\* to MaxByte on a local span, the same reached through an expansion, and
\* records without the byte fields or without a local file.
ByteRange(span, bs, be) == With(With(span, "byte_start", Num(bs)), "byte_end", Num(be))

ByteSpans ==
    {ByteRange(LocalSpan(2, 2), bs, be) : bs \in 0..MaxByte, be \in 0..MaxByte}
    \cup {Expanding(With(LocalSpan(1, 1), "file_name", Str(OtherRs)),
                    ByteRange(LocalSpan(5, 5), bs, bs + 2)) : bs \in 0..MaxByte}
    \cup {Without(LocalSpan(2, 2), "byte_start"), Without(LocalSpan(2, 2), "byte_end"),
          With(LocalSpan(2, 2), "file_name", Str(OtherRs)), Obj(<<>>)}

LinePairs == {lp \in (0..MaxLine) \X (0..MaxLine) : lp[2] - lp[1] \in -1..2}

LeafSpans ==
    {With(LocalSpan(lp[1], lp[2]), "is_primary", Bool(p)) : lp \in LinePairs, p \in BOOLEAN}
    \cup {Without(LocalSpan(4, 5), k) : k \in DOMAIN LocalSpan(4, 5).obj}
    \cup {With(LocalSpan(4, 4), "file_name", Str(OtherRs)),
          With(LocalSpan(4, 4), "column_start", Str(<<"2">>)),
          Obj(<<>>), Num(0), Num(5)}

\* The records that carry an expansion: a span in another file, a span in
\* generated code, a span in user code.
OuterSpans ==
    {Restrict(With(With(o, "label", Str(<<"o">>)), "is_primary", Bool(TRUE)),
              (DOMAIN o.obj) \ drop) :
        o \in {With(LocalSpan(4, 4), "file_name", Str(OtherRs)), LocalSpan(1, 1)},
        drop \in SUBSET {"label", "is_primary"}}
    \cup {LocalSpan(4, 4)}

RECURSIVE SpanRecordsOfDepth(_)
SpanRecordsOfDepth(d) ==
    IF d = 0 THEN {s \in LeafSpans : TRUE}
    ELSE LET inner == SpanRecordsOfDepth(d - 1)
         IN inner \cup {Expanding(o, i) : o \in OuterSpans, i \in inner}

SpanRecords == SpanRecordsOfDepth(MaxDepth)

M_plain == <<"o", "o", "p", "s">>
M_note == <<"n", "o", "t", "e">>
M_abort == S_aborting \o <<" ", "1">>
M_more == S_more \o <<" ", "E">>
M_found == <<"f", "o", "u", "n", "d", " ">> \o Sentinel
M_bare == <<"n", "o", " ">> \o SubSeq(Sentinel, 2, Len(Sentinel) - 1)

MessageValues ==
    {Str(m) : m \in {M_plain, M_abort, M_more, S_some, M_found, M_bare,
                     SubSeq(S_aborting, 1, 8), <<>>}}
    \cup {Null, Num(3), Bool(TRUE), Arr(<<>>)}

SeqsUpTo(S, n) == UNION {[1..k -> S] : k \in 0..n}

PoolSpans ==
    {LocalSpan(4, 4), LocalSpan(1, 1), LocalSpan(3, 3),
     Expanding(With(LocalSpan(1, 1), "file_name", Str(OtherRs)), LocalSpan(5, 5)),
     Without(LocalSpan(4, 4), "column_start")}

PoolChildren ==
    {Obj([message |-> Str(M_note), level |-> Str(M_note), spans |-> Arr(<<LocalSpan(4, 5)>>)]),
     Obj([level |-> Str(M_note), spans |-> Arr(<<LocalSpan(5, 5)>>)]),
     Obj([message |-> Str(M_abort), spans |-> Arr(<<LocalSpan(3, 3), LocalSpan(1, 1)>>)]),
     Obj([message |-> Str(M_found), level |-> Str(M_note), spans |-> Arr(<<LocalSpan(1, 1)>>)]),
     Obj([message |-> Str(M_plain)])}

\* Records with spans and children, to exercise the child promotion.
PromotionRecords ==
    {Restrict(Obj([message |-> Str(m), level |-> Str(S_error),
                   spans |-> Arr(ss), children |-> Arr(cs)]), keep) :
        m \in {M_plain, M_abort},
        ss \in SeqsUpTo(PoolSpans, MaxSpans),
        cs \in SeqsUpTo(PoolChildren, MaxChildren),
        keep \in {{"message", "level", "spans", "children"}}}
    \cup {Obj([message |-> Str(m), level |-> Str(S_error), children |-> Arr(cs)]) :
            m \in {M_plain, M_abort}, cs \in SeqsUpTo(PoolChildren, MaxChildren)}

FullRecord ==
    Obj([message |-> Str(M_found), level |-> Str(S_error),
         code |-> Obj([code |-> Str(<<"E">>), explanation |-> Str(<<"x">>)]),
         rendered |-> Str(<<"r">>),
         children |-> Arr(<<Obj([message |-> Str(M_note),
                                 spans |-> Arr(<<LocalSpan(1, 1)>>)])>>),
         spans |-> Arr(<<LocalSpan(4, 5)>>)])

\* Every record got from FullRecord by leaving fields out, of the record or
\* of its span.
PartialRecords ==
    {Restrict(FullRecord, keep) : keep \in SUBSET DOMAIN FullRecord.obj}
    \cup {With(FullRecord, "spans", Arr(<<Restrict(LocalSpan(4, 5), keep)>>)) :
            keep \in SUBSET DOMAIN LocalSpan(4, 5).obj}

MessageRecords ==
    {Obj([message |-> v]) : v \in MessageValues}
    \cup {Obj([message |-> v, spans |-> Arr(<<LocalSpan(4, 4)>>)]) : v \in MessageValues}

DirectRecords == PromotionRecords \cup PartialRecords \cup MessageRecords

\* What Cargo puts around the compiler's message, the envelope's own fields.
BareEnvelope == [reason |-> Str(<<"c">>)]
RichEnvelope ==
    [reason |-> Str(<<"c">>), level |-> Str(M_note),
     spans |-> Arr(<<LocalSpan(4, 4)>>),
     children |-> Arr(<<Obj([message |-> Str(M_note),
                             spans |-> Arr(<<LocalSpan(4, 5)>>)])>>)]

Envelope(r, fields) == Obj(("message" :> r) @@ fields)

Envelopes ==
    {Envelope(r, RichEnvelope) : r \in DirectRecords}
    \cup {Envelope(r, BareEnvelope) : r \in PartialRecords \cup MessageRecords}
    \cup {Envelope(Envelope(r, e), BareEnvelope) :
            r \in MessageRecords, e \in {BareEnvelope, RichEnvelope}}

Records == DirectRecords \cup Envelopes

Ident == SubSeq(Sentinel, 2, Len(Sentinel) - 1)
\* The pieces the messages given to sanitize_message are made of.
Pieces == {<<Backtick>>, Ident, <<"x">>, Sentinel}

RECURSIVE PieceStrings(_)
PieceStrings(n) ==
    IF n = 0 THEN {<<>>}
    ELSE LET shorter == PieceStrings(n - 1)
         IN shorter \cup {s \o p : s \in shorter, p \in Pieces}

Messages == PieceStrings(MaxPieces)

(***************************************************************************)
(* The state machine: one operation is applied to the code block, and      *)
(* fill_lines is then applied to the error the operation has left.         *)
(***************************************************************************)
Init ==
    /\ code_block \in CodeBlocks
    /\ op = "none"
    /\ input = Null
    /\ result = None
    /\ error = None
    /\ fills = 0

OptNew ==
    /\ op = "none"
    /\ \E json \in Records :
        /\ op' = "opt_new"
        /\ input' = json
        /\ result' = opt_new(json, code_block)
        /\ error' = result'
    /\ UNCHANGED <<code_block, fills>>

FromJson ==
    /\ op = "none"
    /\ \E span_json \in SpanRecords :
        /\ op' = "from_json"
        /\ input' = span_json
        /\ result' = from_json(span_json, code_block)
    /\ UNCHANGED <<code_block, error, fills>>

SanitizeMessage ==
    /\ op = "none"
    /\ \E message \in Messages :
        /\ op' = "sanitize_message"
        /\ input' = message
        /\ result' = sanitize_message(message)
    /\ UNCHANGED <<code_block, error, fills>>

FromSegmentSpan ==
    /\ op = "none"
    /\ \E i \in 1..Len(code_block.segments),
          n \in 1..Len(user_code_info(code_block).original_lines) :
        LET segment == code_block.segments[i]
            span == Span_from_command([line_number |-> n], 1, 3)
            e == from_segment_span(segment,
                                   SpannedMessage_from_segment_span(segment, span),
                                   M_plain)
        IN /\ op' = "from_segment_span"
           /\ input' = <<i, n>>
           /\ result' = e
           /\ error' = Some(e)
    /\ UNCHANGED <<code_block, fills>>

FillLines ==
    /\ is_some(error)
    /\ fills < MaxFills
    /\ \A i \in 1..Len(error.some.spanned_messages) :
        is_some(error.some.spanned_messages[i].span)
            => slice_in_range(error.some.spanned_messages[i].span.some,
                              user_code_info(code_block))
    /\ error' = Some(fill_lines(error.some, user_code_info(code_block)))
    /\ fills' = fills + 1
    /\ UNCHANGED <<code_block, op, input, result>>

GetCodeOriginsForSpan ==
    /\ op = "none"
    /\ \E span \in ByteSpans :
        /\ op' = "get_code_origins_for_span"
        /\ input' = span
        /\ result' = get_code_origins_for_span(span, code_block)
    /\ UNCHANGED <<code_block, error, fills>>

Next ==
    \/ OptNew
    \/ GetCodeOriginsForSpan
    \/ FromJson
    \/ SanitizeMessage
    \/ FromSegmentSpan
    \/ FillLines

Spec == Init /\ [][Next]_vars

TypeOK ==
    /\ code_block \in CodeBlocks
    /\ op \in {"none", "opt_new", "from_json", "sanitize_message", "from_segment_span",
               "get_code_origins_for_span"}
    /\ fills \in 0..MaxFills

(***************************************************************************)
(* Vocabulary of the properties.                                           *)
(***************************************************************************)
\* The message begins with one of the three epilogue prefixes.
BeginsWithEpilogue(m) == \E p \in {S_aborting, S_more, S_some} : starts_with(m, p)

HasStringMessage(j) == is_some(as_str(Index(j, "message")))

IsEnvelope(j) == is_object(Index(j, "message"))

ChildrenOf(j) == IF is_array(Index(j, "children")) THEN Index(j, "children").arr ELSE <<>>

SpansOf(j) == IF is_array(Index(j, "spans")) THEN Index(j, "spans").arr ELSE <<>>

ChildInUserCode(j, i) == any_user_supplied(get_code_origins(ChildrenOf(j)[i], code_block))

TopInUserCode(j) == any_user_supplied(get_code_origins(j, code_block))

\* The index of the child that takes the place of record j: the first child
\* with a user-supplied origin, when j's own spans have none; 0 when no child
\* is promoted.
PromotedChild(j) ==
    IF TopInUserCode(j) \/ ~(\E i \in 1..Len(ChildrenOf(j)) : ChildInUserCode(j, i))
    THEN 0
    ELSE CHOOSE i \in 1..Len(ChildrenOf(j)) :
            /\ ChildInUserCode(j, i)
            /\ \A k \in 1..(i - 1) : ~ChildInUserCode(j, k)

\* The record whose message, level and spans make the error.
WorkingRecord(j) == IF PromotedChild(j) = 0 THEN j ELSE ChildrenOf(j)[PromotedChild(j)]

RECURSIVE ConcatChildOrigins(_, _)
ConcatChildOrigins(j, i) ==
    IF i > Len(ChildrenOf(j)) THEN <<>>
    ELSE get_code_origins(ChildrenOf(j)[i], code_block) \o ConcatChildOrigins(j, i + 1)

OptNewDirect == op = "opt_new" /\ ~IsEnvelope(input)

(***************************************************************************)
(* C1 as stated: every record whose message begins with "aborting due to", *)
(* "For more information about" or "Some errors occurred" makes opt_new    *)
(* return None, whatever its spans and children.                           *)
(***************************************************************************)
C1_EpilogueRecordGivesNone ==
    (/\ OptNewDirect
     /\ HasStringMessage(input)
     /\ BeginsWithEpilogue(as_str(Index(input, "message")).some))
        => result = None

(***************************************************************************)
(* C1 amended: opt_new returns None for every record whose working record  *)
(* (the record itself, or the child promoted in its place) has a message   *)
(* that begins with one of the three epilogue prefixes.                    *)
(***************************************************************************)
C1_EpilogueWorkingRecordGivesNone ==
    (/\ OptNewDirect
     /\ HasStringMessage(WorkingRecord(input))
     /\ BeginsWithEpilogue(as_str(Index(WorkingRecord(input), "message")).some))
        => result = None

C1_WitnessSpansAndChildren ==
    /\ OptNewDirect
    /\ PromotedChild(input) = 0
    /\ HasStringMessage(input)
    /\ BeginsWithEpilogue(as_str(Index(input, "message")).some)
    /\ Len(SpansOf(input)) > 0
    /\ Len(ChildrenOf(input)) > 0
    /\ result = None

(***************************************************************************)
(* C2: the spanned messages of an error returned by opt_new are never a    *)
(* mix: if one has a span, all have; if none has, there is one span-less   *)
(* message per span of the working record.                                 *)
(***************************************************************************)
C2_NeverAMix ==
    (op = "opt_new" /\ is_some(result)) =>
        LET sm == result.some.spanned_messages
        IN /\ (\E i \in 1..Len(sm) : is_some(sm[i].span))
                => (\A i \in 1..Len(sm) : is_some(sm[i].span))
           /\ (\A i \in 1..Len(sm) : is_none(sm[i].span))
                => Len(sm) = Len(SpansOf(result.some.json))

C2_Witness ==
    /\ op = "opt_new"
    /\ is_some(result)
    /\ Len(result.some.spanned_messages) > 0
    /\ Len(result.some.spanned_messages) < Len(SpansOf(result.some.json))
    /\ \A i \in 1..Len(result.some.spanned_messages) :
            is_some(result.some.spanned_messages[i].span)

(***************************************************************************)
(* C3: child promotion.  When the record's own origins hold no user        *)
(* segment, the first child whose origins hold one becomes the working     *)
(* record: the error's raw record, message, level and spanned messages are *)
(* that child's and is_from_user_code() is true.  When the record's own    *)
(* origins hold a user segment, no child is promoted and the origins of    *)
(* every child are appended to code_origins.                               *)
(***************************************************************************)
C3_ChildPromotion ==
    (OptNewDirect /\ is_some(result)) =>
        LET e == result.some
            p == PromotedChild(input)
            child == ChildrenOf(input)[p]
        IN /\ (p > 0) =>
                /\ e.json = child
                /\ e.message = sanitize_message(as_str(Index(child, "message")).some)
                /\ e.level = unwrap_or(as_str(Index(child, "level")), <<>>)
                /\ e.spanned_messages = build_spanned_messages(child, code_block)
                /\ is_from_user_code(e)
           /\ TopInUserCode(input) =>
                /\ e.json = input
                /\ e.code_origins =
                     get_code_origins(input, code_block) \o ConcatChildOrigins(input, 1)

C3_Witness ==
    /\ OptNewDirect
    /\ is_some(result)
    /\ PromotedChild(input) = 2
    /\ Len(SpansOf(input)) > 0
    /\ result.some.json = ChildrenOf(input)[2]
    /\ result.some.json # ChildrenOf(input)[1]

C3_WitnessNoPromotion ==
    /\ OptNewDirect
    /\ is_some(result)
    /\ TopInUserCode(input)
    /\ \E i \in 1..Len(ChildrenOf(input)) : ChildInUserCode(input, i)
    /\ result.some.json = input

(***************************************************************************)
(* Vocabulary of the properties about span records.                        *)
(***************************************************************************)
IsLocal(span_json) ==
    /\ is_some(as_str(Index(span_json, "file_name")))
    /\ ends_with(as_str(Index(span_json, "file_name")).some, S_lib)

HasColumns(span_json) ==
    /\ is_some(as_usize(Index(span_json, "column_start")))
    /\ is_some(as_usize(Index(span_json, "column_end")))

\* The lines line_start..=line_end of a span record.
LinesOf(span_json) ==
    IF /\ is_some(as_usize(Index(span_json, "line_start")))
       /\ is_some(as_usize(Index(span_json, "line_end")))
    THEN (Index(span_json, "line_start").num)..(Index(span_json, "line_end").num)
    ELSE {}

ExpansionSpan(span_json) == Index(Index(span_json, "expansion"), "span")

OwnLabel(span_json) == unwrap_or(as_str(Index(span_json, "label")), <<>>)

OwnPrimary(span_json) == unwrap_or(as_bool(Index(span_json, "is_primary")), FALSE)

\* The first and the last line of the span record are lines of user code.
EndsInUserCode(span_json) ==
    /\ LinesOf(span_json) # {}
    /\ is_user_supplied(origin_for_line(code_block, Index(span_json, "line_start").num)[1])
    /\ is_user_supplied(origin_for_line(code_block, Index(span_json, "line_end").num)[1])

\* No line of the record, nor of any record of its expansion chain, is a
\* line of user code of the local file.
RECURSIVE GeneratedOnly(_)
GeneratedOnly(span_json) ==
    /\ IsLocal(span_json) =>
        \A l \in LinesOf(span_json) : ~is_user_supplied(origin_for_line(code_block, l)[1])
    /\ ~is_empty(ExpansionSpan(span_json)) => GeneratedOnly(ExpansionSpan(span_json))

RECURSIVE ExpansionDepth(_)
ExpansionDepth(span_json) ==
    IF is_empty(ExpansionSpan(span_json)) THEN 0
    ELSE 1 + ExpansionDepth(ExpansionSpan(span_json))

(***************************************************************************)
(* C4: for a span record of the local file that has both columns and whose *)
(* first and last line are lines of user code, from_json yields the Span   *)
(* with start_line = first.start_line + first_line_offset, start_column =  *)
(* column_start + (first.column_offset if first_line_offset = 0, else 0),  *)
(* the same for the end with the last origin, and code_block_id =          *)
(* first.node_index.                                                       *)
(***************************************************************************)
C4_UserSpan ==
    (/\ op = "from_json"
     /\ IsLocal(input)
     /\ HasColumns(input)
     /\ EndsInUserCode(input)) =>
        LET first == origin_for_line(code_block, Index(input, "line_start").num)
            last == origin_for_line(code_block, Index(input, "line_end").num)
        IN /\ is_some(result.span)
           /\ result.span.some.start_line = first[1].start_line + first[2]
           /\ result.span.some.start_column =
                Index(input, "column_start").num
                + (IF first[2] = 0 THEN first[1].column_offset ELSE 0)
           /\ result.span.some.end_line = last[1].start_line + last[2]
           /\ result.span.some.end_column =
                Index(input, "column_end").num
                + (IF last[2] = 0 THEN last[1].column_offset ELSE 0)
           /\ result.span.some.code_block_id = first[1].node_index

C4_Witness ==
    /\ op = "from_json"
    /\ IsLocal(input)
    /\ HasColumns(input)
    /\ EndsInUserCode(input)
    /\ is_some(result.span)
    /\ result.span.some.start_column # Index(input, "column_start").num
    /\ result.span.some.end_column = Index(input, "column_end").num
    /\ result.span.some.end_line > result.span.some.start_line
    /\ origin_for_line(code_block, Index(input, "line_end").num)[1].column_offset > 0

(***************************************************************************)
(* C5: a span record whose lines, and those of its whole expansion chain,  *)
(* are lines of generated code or of another file gives a message without  *)
(* a span that carries the record's own label and is_primary.              *)
(***************************************************************************)
C5_GeneratedOnlyHasNoSpan ==
    (op = "from_json" /\ GeneratedOnly(input)) =>
        /\ is_none(result.span)
        /\ result.label = OwnLabel(input)
        /\ result.is_primary = OwnPrimary(input)

C5_Witness ==
    /\ op = "from_json"
    /\ GeneratedOnly(input)
    /\ ExpansionDepth(input) = 2
    /\ IsLocal(input)
    /\ LinesOf(input) # {}
    /\ IsLocal(ExpansionSpan(ExpansionSpan(input)))
    /\ LinesOf(ExpansionSpan(ExpansionSpan(input))) # {}
    /\ OwnLabel(input) # OwnLabel(ExpansionSpan(ExpansionSpan(input)))
    /\ is_none(result.span)

\* from_json recursed into expansion.span and got a message with a span.
TookExpansionSpan ==
    /\ op = "from_json"
    /\ is_none(span_of_json(input, code_block))
    /\ ~is_empty(ExpansionSpan(input))
    /\ is_some(from_json(ExpansionSpan(input), code_block).span)

(***************************************************************************)
(* C7 as stated: when the outer record gives no span and the recursion     *)
(* into expansion.span gives a message with a span, the result keeps that  *)
(* span, its label is the outer record's label (also when the outer        *)
(* record has none) and its is_primary is the OR of both flags.            *)
(***************************************************************************)
C7_LabelAlwaysOuter ==
    TookExpansionSpan =>
        LET inner == from_json(ExpansionSpan(input), code_block)
        IN /\ result.span = inner.span
           /\ result.label = OwnLabel(input)
           /\ result.is_primary = (inner.is_primary \/ OwnPrimary(input))

(***************************************************************************)
(* C7 amended: the result keeps the inner span, its is_primary is the OR   *)
(* of both flags, and its label is the outer record's label when the outer *)
(* record has a string label; when it has none the inner label is kept.    *)
(***************************************************************************)
C7_LabelOuterWhenPresent ==
    TookExpansionSpan =>
        LET inner == from_json(ExpansionSpan(input), code_block)
        IN /\ result.span = inner.span
           /\ result.label = (IF is_some(as_str(Index(input, "label")))
                              THEN Index(input, "label").str
                              ELSE inner.label)
           /\ result.is_primary = (inner.is_primary \/ OwnPrimary(input))

C7_Witness ==
    /\ TookExpansionSpan
    /\ is_some(as_str(Index(input, "label")))
    /\ result.label # from_json(ExpansionSpan(input), code_block).label
    /\ from_json(ExpansionSpan(input), code_block).is_primary
    /\ ~OwnPrimary(input)
    /\ result.is_primary

C7_WitnessNoLabel ==
    /\ TookExpansionSpan
    /\ is_none(as_str(Index(input, "label")))
    /\ result.label # <<>>

(***************************************************************************)
(* C6: once fill_lines has been applied, once or several times, to an      *)
(* error built by opt_new or by from_segment_span, every spanned message   *)
(* with a span has end_line - start_line + 1 lines and every spanned       *)
(* message without a span has none.                                        *)
(***************************************************************************)
C6_LinesMatchSpan ==
    (fills >= 1 /\ is_some(error)) =>
        \A i \in 1..Len(error.some.spanned_messages) :
            LET sm == error.some.spanned_messages[i]
            IN IF is_some(sm.span)
               THEN Len(sm.lines) = sm.span.some.end_line - sm.span.some.start_line + 1
               ELSE sm.lines = <<>>

(***************************************************************************)
(* C8 as stated: every record that is not an epilogue summary makes        *)
(* opt_new return an error, whichever of its optional fields (message      *)
(* included) are absent.                                                   *)
(***************************************************************************)
C8_EveryPartialRecordAccepted ==
    (/\ OptNewDirect
     /\ ~(HasStringMessage(input)
          /\ BeginsWithEpilogue(as_str(Index(input, "message")).some)))
        => is_some(result)

(***************************************************************************)
(* C8 amended: opt_new returns an error for every record whose working     *)
(* record (the record itself, or the child promoted in its place) has a    *)
(* string message that is not an epilogue summary, whichever other fields  *)
(* are absent: an absent level gives the empty level and absent spans give *)
(* no spanned message.  A working record without a string message gives    *)
(* None.                                                                   *)
(***************************************************************************)
C8_PartialRecordWithMessageAccepted ==
    OptNewDirect =>
        LET w == WorkingRecord(input)
        IN IF HasStringMessage(w)
           THEN ~BeginsWithEpilogue(as_str(Index(w, "message")).some) =>
                    /\ is_some(result)
                    /\ result.some.json = w
                    /\ is_none(as_str(Index(w, "level"))) => result.some.level = <<>>
                    /\ ~is_array(Index(w, "spans")) => result.some.spanned_messages = <<>>
           ELSE result = None

C8_Witness ==
    /\ OptNewDirect
    /\ DOMAIN input.obj = {"message"}
    /\ is_some(result)
    /\ result.some.level = <<>>
    /\ result.some.spanned_messages = <<>>
    /\ result.some.code_origins = <<>>

C8_WitnessPartialSpan ==
    /\ OptNewDirect
    /\ is_some(result)
    /\ Len(SpansOf(input)) = 1
    /\ DOMAIN SpansOf(input)[1].obj = {"file_name"}
    /\ Len(result.some.spanned_messages) = 1

(***************************************************************************)
(* C9 as stated: for every record r, opt_new of an envelope whose message  *)
(* field is the object r returns what opt_new of r returns, whatever other *)
(* fields the envelope has.                                                *)
(***************************************************************************)
C9_EnvelopeOfAnyRecord ==
    (op = "opt_new" /\ IsEnvelope(input))
        => result = opt_new(Index(input, "message"), code_block)

(***************************************************************************)
(* C9 amended: for every record r whose own message field is not an        *)
(* object, opt_new of an envelope whose message field is the object r      *)
(* returns what opt_new of r returns, whatever other fields the envelope   *)
(* has.  One level of envelope is unwrapped, not two.                      *)
(***************************************************************************)
C9_EnvelopeOfPlainRecord ==
    (op = "opt_new" /\ IsEnvelope(input) /\ ~IsEnvelope(Index(input, "message")))
        => result = opt_new(Index(input, "message"), code_block)

C9_Witness ==
    /\ op = "opt_new"
    /\ IsEnvelope(input)
    /\ ~IsEnvelope(Index(input, "message"))
    /\ Len(SpansOf(input)) > 0
    /\ Len(ChildrenOf(input)) > 0
    /\ is_some(result)
    /\ result.some.json = Index(input, "message")
    /\ result.some.spanned_messages = <<>>
    /\ result.some.code_origins = <<>>

(***************************************************************************)
(* C10 as stated: the sanitised message has no occurrence of the sentinel  *)
(* identifier evcxr_variable_store.                                        *)
(***************************************************************************)
C10_NoSentinelIdentifier ==
    /\ op = "sanitize_message" => ~Contains(result, Ident)
    /\ (op = "opt_new" /\ is_some(result)) => ~Contains(result.some.message, Ident)

(***************************************************************************)
(* C10 amended: the sanitised message has no occurrence of the sentinel    *)
(* identifier in backticks, the text sanitize_message looks for; each      *)
(* occurrence found from left to right is replaced by <end of input> and   *)
(* the rest of the message, the identifier without backticks included, is  *)
(* kept as it is and in order: putting the quoted sentinel back in the     *)
(* place of every <end of input> gives the message again.                  *)
(***************************************************************************)
C10_NoQuotedSentinel ==
    /\ op = "sanitize_message" =>
        /\ ~Contains(result, Sentinel)
        /\ replace(result, EndOfInput, Sentinel) = input
        /\ ~Contains(input, Sentinel) => result = input
    /\ (op = "opt_new" /\ is_some(result)) =>
        /\ ~Contains(result.some.message, Sentinel)
        /\ replace(result.some.message, EndOfInput, Sentinel)
             = Index(result.some.json, "message").str

C10_Witness ==
    /\ op = "sanitize_message"
    /\ \E i \in 1..Len(input) :
        /\ MatchAt(input, Sentinel, i)
        /\ MatchAt(input, Sentinel, i + Len(Sentinel) - 1)
    /\ Contains(result, Ident)
    /\ ~Contains(result, Sentinel)

(***************************************************************************)
(* Vocabulary of the properties about byte ranges.                         *)
(***************************************************************************)
RawByteStart(span) == unwrap_or(as_usize(Index(span, "byte_start")), 0)

RawByteEnd(span) == unwrap_or(as_usize(Index(span, "byte_end")), 0)

\* The total length of the segments that precede segment k.
RECURSIVE SegmentStart(_, _)
SegmentStart(segments, k) ==
    IF k <= 1 THEN 0
    ELSE SegmentStart(segments, k - 1) + Len(segments[k - 1].code)

\* Offset p of the concatenated segments is a byte of segment k.
LandsIn(segments, p, k) ==
    /\ SegmentStart(segments, k) <= p
    /\ p < SegmentStart(segments, k) + Len(segments[k].code)

IsFirstUserSegment(segments, k) ==
    /\ is_user_supplied(segments[k].kind)
    /\ \A h \in 1..(k - 1) : ~is_user_supplied(segments[h].kind)

GotByteRange ==
    /\ op = "get_code_origins_for_span"
    /\ IsLocal(input)
    /\ RawByteStart(input) <= RawByteEnd(input)

(***************************************************************************)
(* C11: for a local span, the byte range returned by                       *)
(* get_code_origins_for_span is the raw (byte_start, byte_end) plus 20,    *)
(* minus the total length of the segments that precede the user segment in *)
(* which the error lands, also when the block has several user segments.   *)
(***************************************************************************)
C11_BytesRelativeToLandingSegment ==
    GotByteRange =>
        \A k \in 1..Len(code_block.segments) :
            (/\ is_user_supplied(code_block.segments[k].kind)
             /\ LandsIn(code_block.segments, RawByteStart(input) + PrologueOffset, k))
                => result.bytes =
                     <<RawByteStart(input) + PrologueOffset
                         - SegmentStart(code_block.segments, k),
                       RawByteEnd(input) + PrologueOffset
                         - SegmentStart(code_block.segments, k)>>

\* What the code does give: the range is relative to the first user segment
\* of the block, whichever user segment the error lands in.
C11_BytesRelativeToFirstUserSegment ==
    GotByteRange =>
        \A k, f \in 1..Len(code_block.segments) :
            (/\ is_user_supplied(code_block.segments[k].kind)
             /\ LandsIn(code_block.segments, RawByteStart(input) + PrologueOffset, k)
             /\ IsFirstUserSegment(code_block.segments, f))
                => result.bytes =
                     <<RawByteStart(input) + PrologueOffset
                         - SegmentStart(code_block.segments, f),
                       RawByteEnd(input) + PrologueOffset
                         - SegmentStart(code_block.segments, f)>>

C11_WitnessSecondUserSegment ==
    /\ GotByteRange
    /\ \E k \in 1..Len(code_block.segments) :
        /\ is_user_supplied(code_block.segments[k].kind)
        /\ ~IsFirstUserSegment(code_block.segments, k)
        /\ LandsIn(code_block.segments, RawByteStart(input) + PrologueOffset, k)

(***************************************************************************)
(* C12: for a span record with byte_start <= byte_end the two walks over   *)
(* the segments return bs <= be, so that every Span built by from_json has *)
(* byte_start <= byte_end, and neither walk takes more than the offset     *)
(* that is left (the offsets never go below zero).                         *)
(***************************************************************************)
C12_ByteRangeOrdered ==
    /\ (op = "get_code_origins_for_span"
        /\ RawByteStart(input) <= RawByteEnd(input)) =>
            /\ result.bytes[1] <= result.bytes[2]
            /\ result.bytes[1] >= 0
            /\ result.bytes[2] >= 0
    /\ (/\ op = "from_json"
        /\ IsLocal(input)
        /\ HasColumns(input)
        /\ EndsInUserCode(input)
        /\ RawByteStart(input) <= RawByteEnd(input)) =>
            /\ is_some(result.span)
            /\ result.span.some.byte_start <= result.span.some.byte_end

\* The part of C12 that the code keeps: no walk goes below zero.
C12_NoUnderflow ==
    /\ op = "get_code_origins_for_span" =>
        (result.bytes[1] >= 0 /\ result.bytes[2] >= 0)
    /\ (op = "from_json" /\ is_some(result.span)) =>
        (result.span.some.byte_start >= 0 /\ result.span.some.byte_end >= 0)
====
